---- MODULE Spec2Model ----
(***************************************************************************)
(* The dome projection pipeline of blood-child: the frame pacer            *)
(* (shouldRenderDomeFrame), the dome keyboard controls, the still exports, *)
(* the video recorder and the image sequence, as one state machine.        *)
(*                                                                         *)
(* Time is counted in ticks.  DOME_FRAME_DURATION (1000 / 30 ms) is        *)
(* TicksPerFrame ticks, so the 100 ms download stagger of                  *)
(* stopImageSequence, which is exactly three frame durations, is           *)
(* 3 * TicksPerFrame ticks.  All pacer arithmetic is exact in ticks.       *)
(***************************************************************************)
EXTENDS Integers, Sequences, FiniteSets, TLC

\* ------------------------------------------------------------------ bounds
TicksPerFrame == 3        \* resolution of the clock: ticks per frame duration
MaxTime == 11             \* performance.now() is followed up to this tick
MaxDownloads == 2         \* a.click() downloads followed per behaviour
MaxRecordings == 1        \* MediaRecorder objects created per behaviour
MaxSessions == 2          \* the same, where recording sessions follow one another
SeqTime == 7              \* the image sequence is followed up to this tick
ReadTime == 4             \* the read-backs are followed up to this tick
GridHalf == 5             \* fragments are shaded at vUv = i / (2 * GridHalf)

\* ------------------------------------------------------- program constants
DOME_FOV == 180
DOME_OUTPUT_RESOLUTION == 4096
RECORDING_RESOLUTION == 2048
PadWidth == 6
StaggerFrames == 3        \* 100 ms = 3 * (1000 / 30) ms

DOME_FRAME_DURATION == TicksPerFrame
StaggerDelay == StaggerFrames * DOME_FRAME_DURATION

\* window.innerWidth x window.innerHeight the host can report
WindowSizes == { <<1920, 1080>>, <<1080, 1920>> }
\* window.devicePixelRatio as a fraction <<numerator, denominator>>
PixelRatios == { <<1, 1>>, <<2, 1>>, <<3, 2>> }
\* the steps of a still export that can throw
ThrowPoints == { "capture", "render", "readback", "download" }

Cleared == -1             \* drawing buffer after a resize: nothing rendered
NoCallback == -1
None == <<0, 0>>          \* no size on record
Stopped == -1             \* THREE.Clock before its first getDelta
AtOrigin == -1            \* position of a CubeCamera no capture has placed yet
Identity == 0             \* the quaternion of an object nothing has turned
NoParent == <<0, 0>>      \* the transform of the parent of a camera that has none

\* ----------------------------------------------- the tube/sphere scene
totalSteps == 7
MaxTimeouts == 4          \* pending timeouts the wheel is followed for

\* camera positions for each step
cameraSteps == << [x |-> 0, y |-> -3, z |-> 100],
                 [x |-> 30, y |-> 3, z |-> 150],
                 [x |-> 0, y |-> -3, z |-> 200],
                 [x |-> -80, y |-> 10, z |-> 80],
                 [x |-> -20, y |-> 5, z |-> 30],
                 [x |-> 0, y |-> 10, z |-> -300],
                 [x |-> 10, y |-> 10, z |-> -300] >>

\* text7 .. text13: the number of entries of scene2texts
TextCount == 7

Undefined == <<>>         \* the value undefined; <<v>> is the value v
NoStep == -1              \* changeCameraAndText has not run yet

\* array[index] of a JavaScript array: undefined outside 0 .. length - 1
At(array, index) ==
    IF index \in 0..(Len(array) - 1) THEN <<array[index + 1]>> ELSE Undefined

TextDelay == 1            \* setTimeout(..., 500), in half seconds
ButtonsDelay == 2         \* setTimeout(..., 1000), in half seconds
Timeout(kind, delay) == [kind |-> kind, left |-> delay]

\* positions the wheel animation moves the camera between
CameraStops == { 0, 1 }

\* the camera's parent: none (the born page adds no parent), or a group that is
\* moved and turned (the camera of the unborn page is nested in one)
ParentTransforms == { NoParent, <<2, 1>> }

\* the camera is constructed unturned and nothing turns it
CameraQuaternion == Identity

VARIABLES
    now,                    \* performance.now(), in ticks
    lastCallback,           \* time of the latest host display callback
    innerSize,              \* <<window.innerWidth, window.innerHeight>>
    pixelRatio,             \* renderer pixel ratio, <<num, den>>
    vp9Supported,           \* new MediaRecorder(stream, {mimeType: vp9}) does not throw
    encodersAllowed,        \* MediaRecorder objects the behaviour is followed for
    size,                   \* renderer logical size <<_width, _height>> (getSize)
    canvas,                 \* <<domElement.width, domElement.height>>
    drawn,                  \* time of the frame held by the drawing buffer
    DOME_MODE,
    cubeCamera,             \* TRUE when the capture rig exists (non-null)
    rigsAllocated,          \* history: runs of setupDomeProjection so far
    lastFrameTime,
    domeFrameCount,
    fullscreen1to1,
    isRecording,
    mediaRecorder,          \* index into recorders of the current encoder, 0 = null
    recorders,              \* every MediaRecorder created so far: state, mimeType, handlers
    recordedChunks,         \* the chunk list the ondataavailable handlers push to
    imageSequenceMode,
    imageSequenceFrames,
    imageSequenceFrameCount,
    timers,                 \* pending setTimeout callbacks, in creation order
    downloads,              \* every download triggered by a.click(), in order
    time,                   \* the scene's simulation clock: the deltas added so far, in ticks
    clockOldTime,           \* THREE.Clock oldTime: when getDelta was last polled
    lastRender,             \* history: time of the latest render() call
    cameraPos,              \* camera.position, as the stop it is at
    rigPos,                 \* cubeCamera.position
    rigQuat,                \* cubeCamera.quaternion, in quarter turns
    cameraParent,           \* world transform of the camera's parent: <<offset, quarter turns>>
    frag,                   \* the fragment the fisheye shader shaded last
    last,                   \* the handler that ran in the latest step
    t0,                     \* history: time of the latest dome-mode toggle
    gapsShort,              \* history: every callback gap since t0 < frame duration
    countReset,             \* history: resetDomeFrameCount ran since t0
    dropped,                \* history: frame slots passed over since t0
    lastProduce,            \* history: time of the latest produce since t0
    reactivated,            \* history: dome mode had been on before the latest activation
    timeAtT0,               \* history: the simulation clock at the latest dome-mode toggle
    recPrior,               \* history: size before startRecording, while untouched
    seqPrior,               \* history: size before startImageSequence, while untouched
    scene2Step,             \* the step of the tube/sphere scene the wheel has reached
    cameraTween,            \* the position the camera tween of that scene is heading to
    scene2texts,            \* opacity of each of the scene's texts
    buttonsVisible,         \* the outlined buttons are (being) shown
    cameraTargetPercentage, \* 1 once the camera has left the tube
    timeouts,               \* pending setTimeout callbacks of changeCameraAndText
    stepRead                \* history: the index changeCameraAndText read the tables at last

hostVars == <<now, lastCallback, innerSize, pixelRatio, vp9Supported, encodersAllowed>>
surfaceVars == <<size, canvas, drawn>>
domeVars == <<DOME_MODE, cubeCamera, rigsAllocated, fullscreen1to1>>
pacerVars == <<lastFrameTime, domeFrameCount>>
recVars == <<isRecording, mediaRecorder, recorders, recordedChunks>>
seqVars == <<imageSequenceMode, imageSequenceFrames, imageSequenceFrameCount>>
clockVars == <<time, clockOldTime, lastRender>>
poseVars == <<cameraPos, rigPos, rigQuat, cameraParent>>
pacerHist == <<t0, gapsShort, countReset, dropped, lastProduce, reactivated, timeAtT0>>
priorHist == <<recPrior, seqPrior>>
unbornVars == <<scene2Step, cameraTween, scene2texts, buttonsVisible,
                cameraTargetPercentage, timeouts, stepRead>>
domeStudio == <<hostVars, surfaceVars, domeVars, pacerVars, recVars, seqVars,
                clockVars, poseVars, frag, timers, downloads, pacerHist, priorHist>>
vars == <<hostVars, surfaceVars, domeVars, pacerVars, recVars, seqVars,
          clockVars, poseVars, frag, timers, downloads, last, pacerHist, priorHist,
          unbornVars>>

\* ----------------------------------------------------------------- helpers
Min(a, b) == IF a < b THEN a ELSE b
Max(a, b) == IF a > b THEN a ELSE b

\* WebGLRenderer.setSize: canvas.width = Math.floor(width * pixelRatio)
CanvasOf(sz) == << (sz[1] * pixelRatio[1]) \div pixelRatio[2],
                   (sz[2] * pixelRatio[1]) \div pixelRatio[2] >>

\* renderer.setSize(w, h): logical size, canvas pixels, and a cleared buffer
SetSize(sz) ==
    /\ size' = sz
    /\ canvas' = CanvasOf(sz)
    /\ drawn' = Cleared

\* String(n): the decimal digits of n
RECURSIVE ToDigits(_)
ToDigits(n) == IF n < 10 THEN <<n>> ELSE Append(ToDigits(n \div 10), n % 10)

\* String.prototype.padStart(width, ch)
RECURSIVE PadStart(_, _, _)
PadStart(s, width, ch) == IF Len(s) >= width THEN s ELSE PadStart(<<ch>> \o s, width, ch)

FileName(prefix, digits, ext) == [prefix |-> prefix, digits |-> digits, ext |-> ext]

\* canvas.toDataURL of a canvas of sz logical pixels holding the frame rendered at time at
DataURL(sz, at) == << CanvasOf(sz)[1], CanvasOf(sz)[2], at >>

\* the PNG of a still export: the canvas read back after the capture rig, placed
\* at rig, captured the scene as it is at simulation time scene
StillImage(sz, at, scene, rig) == DataURL(sz, at) \o <<scene, rig>>

Download(name, data) == [name |-> name, data |-> data]

NoRead == "none"           \* the handler read no pixels back

\* a handler that ran, with the read-back call it made
RanRead(via, op, r, read) == [via |-> via, op |-> op, r |-> r, read |-> read]

Ran(via, op, r) == RanRead(via, op, r, NoRead)

Square(n) == <<n, n>>

\* a key handler that calls nothing (dome mode is off): only the log line
Noop(via) ==
    /\ last' = Ran(via, "none", "noop")
    /\ UNCHANGED <<hostVars, clockVars, poseVars, frag, unbornVars, surfaceVars, domeVars, pacerVars, recVars, seqVars,
                   timers, downloads, pacerHist, priorHist>>

\* ------------------------------------------------------------------- pacer
NaiveFrameTime(currentTime, elapsed) == currentTime

\* the phase-preserving update of lastFrameTime
PhaseFrameTime(currentTime, elapsed) == currentTime - (elapsed % DOME_FRAME_DURATION)

GateAlways(dome) == FALSE

\* animate(): if (isDomeMode()) consults the pacer, and shouldRenderDomeFrame
\* itself opens with if (!DOME_MODE) return true
PassThrough(dome) == ~dome

KeepFrameTime(currentTime, previous) == previous

\* the D handler: lastFrameTime = performance.now()
ToggleFrameTime(currentTime, previous) == currentTime

EagerFrameDue(elapsed) == ~(elapsed < DOME_FRAME_DURATION - 1)

\* the skip test of shouldRenderDomeFrame
FrameDue(elapsed) == ~(elapsed < DOME_FRAME_DURATION)

\* ----------------------------------------------------------- fisheye shader
\* Numbers are exact: a rational is Q(n, d); a number with no rational value is
\* kept as the term that denotes it (a square root, a sine, a product).
\* Angles are measured in degrees: the factor PI / 180.0 of the shader only
\* changes the unit in which sin and cos take them.
Abs(n) == IF n < 0 THEN -n ELSE n

RECURSIVE GCD(_, _)
GCD(a, b) == IF b = 0 THEN a ELSE GCD(b, a % b)

Q(n, d) == LET g == GCD(Abs(n), Abs(d))
               sgn == IF d < 0 THEN -1 ELSE 1
           IN  [k |-> "q", n |-> (sgn * n) \div g, d |-> (sgn * d) \div g]

Zero == Q(0, 1)
One == Q(1, 1)

IsQ(x) == x.k = "q"

Neg(x) == IF IsQ(x) THEN Q(-x.n, x.d) ELSE [k |-> "neg", of |-> x]

Plus(x, y) == Q(x.n * y.d + y.n * x.d, x.d * y.d)

\* x * y; 0 * y = 0 and 1 * y = y for every real y
Times(x, y) ==
    IF IsQ(x) /\ IsQ(y) THEN Q(x.n * y.n, x.d * y.d)
    ELSE IF x = Zero \/ y = Zero THEN Zero
    ELSE IF x = One THEN y
    ELSE IF y = One THEN x
    ELSE [k |-> "times", a |-> x, b |-> y]

ISqrt(n) == CHOOSE s \in 0..n : s * s <= n /\ (s + 1) * (s + 1) > n

\* sqrt(n) / d
Root(n, d) == LET s == ISqrt(n)
              IN  IF s * s = n THEN Q(s, d) ELSE [k |-> "root", n |-> n, d |-> d]

\* length(uv)
Length(x, y) == Root(x.n * x.n * y.d * y.d + y.n * y.n * x.d * x.d, x.d * y.d)

\* atan(y, x) is undefined when x and y are both 0: it then returns undef
Atan(y, x, undef) ==
    IF x = Zero /\ y = Zero THEN undef ELSE [k |-> "atan", y |-> y, x |-> x]

\* the sine of a whole number of degrees that is a multiple of 30
SinTable(deg) ==
    CASE deg % 180 = 0 -> Zero
      [] deg % 360 = 90 -> One
      [] deg % 360 = 270 -> Q(-1, 1)
      [] deg % 360 \in {30, 150} -> Q(1, 2)
      [] deg % 360 \in {210, 330} -> Q(-1, 2)
      [] OTHER -> [k |-> "sin", of |-> Q(deg, 1)]

\* sin(a): of atan(y, x) it is y / length(x, y)
Sin(a) ==
    IF IsQ(a)
    THEN IF a.d = 1 THEN SinTable(a.n) ELSE [k |-> "sin", of |-> a]
    ELSE IF a.k = "atan"
    THEN LET h == Length(a.x, a.y)
         IN  IF IsQ(h) THEN Q(a.y.n * h.d, a.y.d * h.n) ELSE [k |-> "sin", of |-> a]
    ELSE [k |-> "sin", of |-> a]

\* cos(a): of atan(y, x) it is x / length(x, y)
Cos(a) ==
    IF IsQ(a)
    THEN IF a.d = 1 THEN SinTable(a.n + 90) ELSE [k |-> "cos", of |-> a]
    ELSE IF a.k = "atan"
    THEN LET h == Length(a.x, a.y)
         IN  IF IsQ(h) THEN Q(a.x.n * h.d, a.x.d * h.n) ELSE [k |-> "cos", of |-> a]
    ELSE [k |-> "cos", of |-> a]

FloorOutside(r) == IF IsQ(r) THEN r.n \div r.d > 1 ELSE ISqrt(r.n) \div r.d > 1

\* r > 1.0
OutsideCircle(r) == IF IsQ(r) THEN r.n > r.d ELSE r.n > r.d * r.d

FullFovPhi(r, fov) == Times(r, Q(fov, 1))

\* phi = r * (fov / 2.0) * PI / 180.0
Phi(r, fov) == Times(r, Q(fov, 2))

KeepZ(dir) == dir

\* sampleDir = vec3(dir.x, dir.y, -dir.z)
SampleDir(dir) == <<dir[1], dir[2], Neg(dir[3])>>

\* vec4(0.0, 0.0, 0.0, 1.0)
Black == [src |-> "constant", rgba |-> <<0, 0, 0, 1>>]

\* textureCube(tCube, sampleDir): the texel the capture holds in that direction
TextureCube(sampleDir) == [src |-> "tCube", dir |-> sampleDir]

\* FisheyeShader.fragmentShader at vUv, with the uniform fov
fragmentShader(vUv, fov, undef) ==
    LET uv == << Plus(Times(vUv[1], Q(2, 1)), Q(-1, 1)),
                 Plus(Times(vUv[2], Q(2, 1)), Q(-1, 1)) >>
        r == Length(uv[1], uv[2])
    IN  IF OutsideCircle(r)
        THEN [gl_FragColor |-> Black, samples |-> <<>>, r |-> r]
        ELSE LET theta == Atan(uv[2], uv[1], undef)
                 phi == Phi(r, fov)
                 dir == << Times(Sin(phi), Cos(theta)),
                           Times(Sin(phi), Sin(theta)),
                           Cos(phi) >>
                 sampleDir == SampleDir(dir)
             IN  [gl_FragColor |-> TextureCube(sampleDir), samples |-> <<sampleDir>>,
                  r |-> r, theta |-> theta, phi |-> phi, dir |-> dir]

\* values of the uniform fov, DOME_FOV among them
FovValues == { 90, DOME_FOV, 270, 360 }

\* what atan(0, 0) may return, in degrees
UndefAngles == { Q(0, 1), Q(45, 1), Q(90, 1), Q(180, 1), Q(-135, 2) }

NoFragment == [vUv |-> <<>>]        \* nothing shaded yet

Init ==
    /\ now = 0
    /\ lastCallback = NoCallback
    /\ innerSize \in WindowSizes
    /\ pixelRatio \in PixelRatios
    /\ vp9Supported \in BOOLEAN
    /\ encodersAllowed \in {MaxRecordings, MaxSessions}
    /\ size = innerSize
    /\ canvas = CanvasOf(innerSize)
    /\ drawn = Cleared
    /\ DOME_MODE = FALSE
    /\ cubeCamera = FALSE
    /\ rigsAllocated = 0
    /\ lastFrameTime = 0
    /\ domeFrameCount = 0
    /\ fullscreen1to1 = FALSE
    /\ isRecording = FALSE
    /\ mediaRecorder = 0
    /\ recorders = <<>>
    /\ recordedChunks = <<>>
    /\ imageSequenceMode = FALSE
    /\ imageSequenceFrames = <<>>
    /\ imageSequenceFrameCount = 0
    /\ timers = <<>>
    /\ downloads = <<>>
    /\ last = Ran("init", "init", "ok")
    /\ t0 = 0
    /\ gapsShort = TRUE
    /\ countReset = FALSE
    /\ dropped = 0
    /\ lastProduce = NoCallback
    /\ reactivated = FALSE
    /\ timeAtT0 = 0
    /\ time = 0
    /\ clockOldTime = Stopped
    /\ lastRender = NoCallback
    /\ cameraPos = 0
    /\ rigPos = AtOrigin
    /\ rigQuat = Identity
    /\ cameraParent \in ParentTransforms
    /\ frag = NoFragment
    /\ recPrior = None
    /\ seqPrior = None
    /\ scene2Step = 0
    /\ cameraTween = cameraSteps[1]
    /\ scene2texts = [k \in 1..TextCount |-> IF k = 1 THEN 1 ELSE 0]
    /\ buttonsVisible = FALSE
    /\ cameraTargetPercentage = 0
    /\ timeouts = <<>>
    /\ stepRead = NoStep

\* time passes
Tick ==
    /\ now < MaxTime
    /\ now' = now + 1
    /\ last' = Ran("host", "tick", "ok")
    /\ UNCHANGED <<lastCallback, innerSize, pixelRatio, vp9Supported, encodersAllowed, clockVars, poseVars, frag, unbornVars,
                   surfaceVars, domeVars,
                   pacerVars, recVars, seqVars, timers, downloads, pacerHist,
                   priorHist>>

StaleCapturedFrames(buffer) ==
    IF imageSequenceMode
    THEN Append(imageSequenceFrames, <<canvas[1], canvas[2], drawn>>)
    ELSE imageSequenceFrames

\* captureImageSequenceFrame, given the drawing buffer toDataURL reads
CapturedFrames(buffer) ==
    IF imageSequenceMode
    THEN Append(imageSequenceFrames, <<canvas[1], canvas[2], buffer>>)
    ELSE imageSequenceFrames

StaleCount == imageSequenceFrameCount

CapturedCount == IF imageSequenceMode THEN imageSequenceFrameCount + 1
                 ELSE imageSequenceFrameCount

WallDelta(dome, wall) == wall

\* render(): delta = 1 / targetFPS in dome mode (one frame duration), else
\* clock.getDelta()
Delta(dome, wall) == IF dome THEN DOME_FRAME_DURATION ELSE wall

\* THREE.Clock.getDelta(): 0 on the call that starts the clock, else the time
\* since the previous poll
GetDelta == IF clockOldTime = Stopped THEN 0 ELSE now - clockOldTime

\* Object3D.getWorldPosition: the local position carried by the parent's transform
WorldPosition(pos, parent) == pos + parent[1]

\* Object3D.getWorldQuaternion: the parent's turn, then the object's own
WorldQuaternion(quat, parent) == (parent[2] + quat) % 4

\* mainCamera.getWorldPosition(cubeCamera.position);
\* mainCamera.getWorldQuaternion(cubeCamera.quaternion)
WorldPose == << WorldPosition(cameraPos, cameraParent),
               WorldQuaternion(CameraQuaternion, cameraParent) >>

\* cubeCamera.position.copy(mainCamera.position): the quaternion is left as it was
CopiedPose == << cameraPos, rigQuat >>

CapturesEveryFrame == "toDataURL"

\* captureImageSequenceFrame: returns at its first line unless a sequence is
\* active, else reads the canvas back with toDataURL
SequenceReadBack == IF imageSequenceMode THEN "toDataURL" ELSE NoRead

\* render(): the body after the pacer let the callback through
Render ==
    /\ time' = time + Delta(DOME_MODE, GetDelta)
    /\ clockOldTime' = IF DOME_MODE THEN clockOldTime ELSE now
    /\ lastRender' = now
    /\ rigPos' = IF DOME_MODE /\ cubeCamera THEN WorldPose[1] ELSE rigPos
    /\ rigQuat' = IF DOME_MODE /\ cubeCamera THEN WorldPose[2] ELSE rigQuat
    /\ drawn' = IF DOME_MODE /\ ~cubeCamera THEN drawn ELSE now
    /\ imageSequenceFrames' = IF DOME_MODE THEN CapturedFrames(drawn') ELSE imageSequenceFrames
    /\ imageSequenceFrameCount' = IF DOME_MODE THEN CapturedCount ELSE imageSequenceFrameCount
    /\ UNCHANGED <<size, canvas, imageSequenceMode>>

\* the host display callback: animate() / the requestAnimationFrame render()
Animate ==
    /\ now > lastCallback
    /\ lastCallback' = now
    /\ LET elapsed == now - lastFrameTime
           gap == now - Max(lastCallback, t0)
       IN  /\ gapsShort' = (gapsShort /\ gap < DOME_FRAME_DURATION)
           /\ IF PassThrough(DOME_MODE)
              THEN /\ Render
                   /\ last' = Ran("host", "animate", "produce")
                   /\ UNCHANGED <<pacerVars, dropped, lastProduce>>
              ELSE IF ~FrameDue(elapsed)
              THEN /\ last' = Ran("host", "animate", "skip")
                   /\ UNCHANGED <<pacerVars, dropped, lastProduce, surfaceVars, seqVars,
                                  clockVars, rigPos, rigQuat>>
              ELSE /\ lastFrameTime' = PhaseFrameTime(now, elapsed)
                   /\ domeFrameCount' = domeFrameCount + 1
                   /\ dropped' = dropped + (elapsed \div DOME_FRAME_DURATION) - 1
                   /\ lastProduce' = now
                   /\ Render
                   /\ last' = RanRead("host", "animate", "produce", SequenceReadBack)
    /\ UNCHANGED <<now, innerSize, pixelRatio, vp9Supported, encodersAllowed, domeVars, recVars, timers,
                   downloads, t0, countReset, reactivated, timeAtT0, priorHist,
                   cameraPos, cameraParent, frag, unbornVars>>

\* window 'resize' event
Resize ==
    \E ws \in WindowSizes \ {innerSize} :
        /\ innerSize' = ws
        /\ SetSize(ws)
        /\ last' = Ran("host", "onWindowResize", "ok")
        /\ recPrior' = None
        /\ seqPrior' = None
        /\ UNCHANGED <<now, lastCallback, pixelRatio, vp9Supported, encodersAllowed, clockVars, poseVars, frag, unbornVars,
                       domeVars, pacerVars, recVars,
                       seqVars, timers, downloads, pacerHist>>

\* a step of the camera tween started by a wheel trigger (animateToStep)
MoveCamera ==
    \E stop \in CameraStops \ {cameraPos} :
        /\ cameraPos' = stop
        /\ last' = Ran("host", "animateToStep", "ok")
        /\ UNCHANGED <<hostVars, clockVars, rigPos, rigQuat, cameraParent, frag, unbornVars, surfaceVars, domeVars,
                       pacerVars, recVars, seqVars, timers, downloads, pacerHist,
                       priorHist>>

\* the GPU shades one fragment of the fullscreen quad; what atan(0, 0) returns
\* is read at the centre of the quad only
Shade ==
    \E i \in 0..(2 * GridHalf), j \in 0..(2 * GridHalf), fov \in FovValues :
      \E undef \in IF i = GridHalf /\ j = GridHalf THEN UndefAngles ELSE {Zero} :
        LET vUv == << Q(i, 2 * GridHalf), Q(j, 2 * GridHalf) >>
        IN  /\ frag' = [vUv |-> vUv, fov |-> fov, undef |-> undef,
                        out |-> fragmentShader(vUv, fov, undef)]
            /\ last' = Ran("gpu", "fragmentShader", "ok")
            /\ UNCHANGED <<hostVars, clockVars, poseVars, surfaceVars, domeVars,
                           pacerVars, recVars, seqVars, timers, downloads,
                           pacerHist, priorHist, unbornVars>>

\* --------------------------------------------------------- dome keyboard
SetupOnActivation(dome, rig) == dome

\* the D handler: if (DOME_MODE && !cubeCamera) setupDomeProjection()
NeedsSetup(dome, rig) == dome /\ ~rig

\* keydown 'd': toggle dome mode; setupDomeProjection creates the rig, the
\* fisheye scene and camera and the render targets together
KeyD ==
    /\ DOME_MODE' = ~DOME_MODE
    /\ cubeCamera' = (cubeCamera \/ NeedsSetup(DOME_MODE', cubeCamera))
    /\ rigsAllocated' = rigsAllocated + (IF NeedsSetup(DOME_MODE', cubeCamera) THEN 1 ELSE 0)
    /\ lastFrameTime' = ToggleFrameTime(now, lastFrameTime)
    /\ domeFrameCount' = 0
    /\ t0' = now
    /\ gapsShort' = TRUE
    /\ countReset' = FALSE
    /\ dropped' = 0
    /\ lastProduce' = NoCallback
    /\ reactivated' = IF DOME_MODE' THEN cubeCamera ELSE reactivated
    /\ timeAtT0' = time
    /\ last' = Ran("KeyD", "toggleDome", "ok")
    /\ UNCHANGED <<hostVars, clockVars, poseVars, frag, unbornVars, surfaceVars, fullscreen1to1, recVars, seqVars,
                   timers, downloads, priorHist>>

\* keydown 'f': toggle the fullscreen 1:1 preview
KeyF ==
    IF ~DOME_MODE THEN Noop("KeyF")
    ELSE /\ fullscreen1to1' = ~fullscreen1to1
         /\ IF fullscreen1to1'
            THEN SetSize(Square(Min(innerSize[1], innerSize[2])))
            ELSE SetSize(innerSize)
         /\ last' = Ran("KeyF", "toggleFullscreen", "ok")
         /\ recPrior' = None
         /\ seqPrior' = None
         /\ UNCHANGED <<hostVars, clockVars, poseVars, frag, unbornVars, DOME_MODE, cubeCamera, rigsAllocated, pacerVars, recVars, seqVars,
                        timers, downloads, pacerHist>>

\* ------------------------------------------------------------ still exports
StaleSize == size

HiRes == Square(DOME_OUTPUT_RESOLUTION)

\* what a still export leaves behind when the step throwAt throws: the surface
\* was already resized, and the render ran if the throw came after it
Thrown(via, op, throwAt, pose) ==
    /\ size' = HiRes
    /\ canvas' = CanvasOf(HiRes)
    /\ drawn' = IF op # "renderDomeFrameHighRes" /\ throwAt \in {"readback", "download"}
                THEN now ELSE Cleared
    /\ rigPos' = pose[1]
    /\ rigQuat' = pose[2]
    /\ last' = RanRead(via, op, "throw",
                       CASE op = "renderDomeFrameHighRes" /\ throwAt = "readback"
                                -> "readRenderTargetPixels"
                         [] op # "renderDomeFrameHighRes" /\ throwAt \in {"readback", "download"}
                                -> "toDataURL"
                         [] OTHER -> NoRead)
    /\ recPrior' = None
    /\ seqPrior' = None
    /\ UNCHANGED <<hostVars, clockVars, cameraPos, cameraParent, frag, unbornVars, domeVars, pacerVars, recVars, seqVars, timers,
                   downloads, pacerHist>>

\* an early return: the error is logged, nothing else happens
Refused(via, op) ==
    /\ last' = Ran(via, op, "noop")
    /\ UNCHANGED <<hostVars, clockVars, poseVars, frag, unbornVars, surfaceVars, domeVars, pacerVars, recVars, seqVars,
                   timers, downloads, pacerHist, priorHist>>

\* a still export that returned: one download, then setSize(restore)
Exported(via, op, name, restore, pose) ==
    /\ Len(downloads) < MaxDownloads
    /\ downloads' = Append(downloads,
                           Download(name, StillImage(HiRes, now, time, pose)))
    /\ SetSize(restore)
    /\ rigPos' = pose[1]
    /\ rigQuat' = pose[2]
    /\ last' = RanRead(via, op, "ok", "toDataURL")
    /\ recPrior' = None
    /\ seqPrior' = None
    /\ UNCHANGED <<hostVars, clockVars, cameraPos, cameraParent, frag, unbornVars, domeVars, pacerVars, recVars, seqVars, timers,
                   pacerHist>>

\* exportDomeFrame(): saves the logical size with getSize
exportDomeFrame(via, throwAt) ==
    IF ~DOME_MODE \/ ~cubeCamera THEN Refused(via, "exportDomeFrame")
    ELSE LET originalSize == size
             name == FileName("dome_frame_",
                              PadStart(ToDigits(domeFrameCount), PadWidth, 0), ".png")
         IN  IF throwAt \in ThrowPoints
             THEN Thrown(via, "exportDomeFrame", throwAt, WorldPose)
             ELSE Exported(via, "exportDomeFrame", name, originalSize, WorldPose)

\* exportSingleFrame(): saves domElement.width / domElement.height
exportSingleFrame(via, throwAt) ==
    IF ~cubeCamera THEN Refused(via, "exportSingleFrame")
    ELSE LET originalWidth == canvas[1]
             originalHeight == canvas[2]
             name == FileName("dome_frame_4096x4096_", ToDigits(now), ".png")
         IN  IF throwAt \in ThrowPoints
             THEN Thrown(via, "exportSingleFrame", throwAt, CopiedPose)
             ELSE Exported(via, "exportSingleFrame", name,
                           <<originalWidth, originalHeight>>, CopiedPose)

\* renderDomeFrameHighRes(): renders into domeRenderTarget, returns the pixels
renderDomeFrameHighRes(via, throwAt) ==
    IF ~DOME_MODE \/ ~cubeCamera THEN Refused(via, "renderDomeFrameHighRes")
    ELSE LET originalSize == size
         IN  IF throwAt \in ThrowPoints \ {"download"}
             THEN Thrown(via, "renderDomeFrameHighRes", throwAt, WorldPose)
             ELSE /\ SetSize(originalSize)
                  /\ rigPos' = WorldPose[1]
                  /\ rigQuat' = WorldPose[2]
                  /\ last' = RanRead(via, "renderDomeFrameHighRes", "ok",
                                     "readRenderTargetPixels")
                  /\ recPrior' = None
                  /\ seqPrior' = None
                  /\ UNCHANGED <<hostVars, clockVars, cameraPos, cameraParent, frag, unbornVars, domeVars, pacerVars, recVars, seqVars,
                                 timers, downloads, pacerHist>>

Outcomes == ThrowPoints \cup {"none"}

\* keydown 'e'
KeyE == IF DOME_MODE THEN \E t \in Outcomes : exportDomeFrame("KeyE", t)
        ELSE Noop("KeyE")

\* keydown 'i'
KeyI == IF DOME_MODE THEN \E t \in Outcomes : exportSingleFrame("KeyI", t)
        ELSE Noop("KeyI")

\* window.exportDomeFrame() from the console
CallExportDomeFrame == \E t \in Outcomes : exportDomeFrame("call", t)

\* window.exportSingleFrame() from the console
CallExportSingleFrame == \E t \in Outcomes : exportSingleFrame("call", t)

\* window.renderDomeFrameHighRes() from the console
CallRenderDomeFrameHighRes == \E t \in Outcomes \ {"download"} : renderDomeFrameHighRes("call", t)

\* ---------------------------------------------------------- video recording
Vp9Options == [mimeType |-> "video/webm;codecs=vp9", videoBitsPerSecond |-> 50000000]
DefaultOptions == [mimeType |-> "", videoBitsPerSecond |-> 0]

\* new MediaRecorder(stream, options): throws NotSupportedError when the host
\* cannot record the mimeType asked for; no mimeType is always accepted
Construct(options) ==
    IF options.mimeType = Vp9Options.mimeType /\ ~vp9Supported
    THEN [ok |-> FALSE]
    ELSE [ok |-> TRUE, mimeType |-> options.mimeType]

Vp9Only == Construct(Vp9Options)

\* try { new MediaRecorder(stream, options) } catch (e) { new MediaRecorder(stream) }
NewMediaRecorder ==
    IF Construct(Vp9Options).ok THEN Construct(Vp9Options) ELSE Construct(DefaultOptions)

\* a MediaRecorder after start(), with both handlers assigned; delivered is the
\* data the encoder has handed to ondataavailable so far
Recorder(mimeType) ==
    [state |-> "recording", mimeType |-> mimeType, ondataavailable |-> TRUE,
     onstop |-> TRUE, delivered |-> <<>>]

\* sizes of the blob a dataavailable event carries (0: nothing was encoded)
ChunkSizes == { 0, 1 }

Chunk(session, sz) == [session |-> session, size |-> sz]

\* ondataavailable: if (event.data.size > 0) recordedChunks.push(event.data)
Push(chunks, data) == IF data.size > 0 THEN Append(chunks, data) ELSE chunks

\* the bytes of one chunk, each tagged with the session that encoded it
Bytes(chunk) == [k \in 1..chunk.size |-> chunk.session]

\* new Blob(chunks): the bytes of the chunks, concatenated in order
RECURSIVE Blob(_)
Blob(chunks) == IF chunks = <<>> THEN <<>>
                ELSE Bytes(Head(chunks)) \o Blob(Tail(chunks))

Reentrant(recording) == FALSE

\* startRecording: if (isRecording) return
AlreadyRecording(recording) == recording

\* startRecording(); an exception of the constructor leaves the function after
\* the resize
startRecording(via) ==
    IF AlreadyRecording(isRecording) THEN Refused(via, "startRecording")
    ELSE /\ Len(recorders) < encodersAllowed
         /\ SetSize(Square(RECORDING_RESOLUTION))
         /\ recPrior' = size
         /\ seqPrior' = None
         /\ IF NewMediaRecorder.ok
            THEN /\ recorders' = Append(recorders, Recorder(NewMediaRecorder.mimeType))
                 /\ mediaRecorder' = Len(recorders) + 1
                 /\ recordedChunks' = <<>>
                 /\ isRecording' = TRUE
                 /\ domeFrameCount' = 0
                 /\ countReset' = TRUE
                 /\ last' = Ran(via, "startRecording", "ok")
            ELSE /\ last' = Ran(via, "startRecording", "throw")
                 /\ UNCHANGED <<recVars, domeFrameCount, countReset>>
         /\ UNCHANGED <<hostVars, clockVars, poseVars, frag, unbornVars, domeVars, lastFrameTime, seqVars, timers,
                        downloads, t0, gapsShort, dropped, lastProduce,
                        reactivated, timeAtT0>>

\* stopRecording(): mediaRecorder.stop() queues the task that fires
\* dataavailable and then stop
stopRecording(via) ==
    IF ~isRecording \/ mediaRecorder = 0 THEN Refused(via, "stopRecording")
    ELSE /\ recorders' = [recorders EXCEPT ![mediaRecorder].state = "stopping"]
         /\ isRecording' = FALSE
         /\ last' = Ran(via, "stopRecording", "ok")
         /\ UNCHANGED <<hostVars, clockVars, poseVars, frag, unbornVars, surfaceVars, domeVars, pacerVars, mediaRecorder,
                        recordedChunks, seqVars, timers, downloads, pacerHist, priorHist>>

\* toggleRecording()
toggleRecording(via) ==
    IF isRecording THEN stopRecording(via) ELSE startRecording(via)

\* the task stop() queued for encoder i: dataavailable with the data encoded
\* (ondataavailable), then stop (onstop: download the video, setSize(window))
OnStop ==
    \E i \in 1..Len(recorders), sz \in ChunkSizes :
        LET data == Chunk(i, sz)
            chunks == Push(recordedChunks, data)
        IN  /\ recorders[i].state = "stopping"
            /\ Len(downloads) < MaxDownloads
            /\ recorders' = [recorders EXCEPT ![i].state = "inactive",
                                              ![i].delivered = Append(@, data)]
            /\ recordedChunks' = chunks
            /\ downloads' = Append(downloads,
                                   Download(FileName("dome_recording_", ToDigits(now), ".webm"),
                                            Blob(chunks)))
            /\ SetSize(innerSize)
            /\ last' = Ran("encoder", "onstop", "ok")
            /\ recPrior' = None
            /\ seqPrior' = None
            /\ UNCHANGED <<hostVars, clockVars, poseVars, frag, unbornVars, domeVars, pacerVars, isRecording,
                           mediaRecorder, seqVars, timers, pacerHist>>

\* keydown 'r'
KeyR == IF DOME_MODE THEN toggleRecording("KeyR") ELSE Noop("KeyR")

CallStartRecording == startRecording("call")
CallStopRecording == stopRecording("call")
CallToggleRecording == toggleRecording("toggleRecording")

\* ------------------------------------------------------------ image sequence
ReversedDue(index, count) == now + (count - 1 - index) * StaggerDelay

\* setTimeout(..., index * 100): the time the download of frame index is due
StaggerDue(index, count) == now + index * StaggerDelay

\* the timer stopImageSequence sets for the frame at index (0-based)
FrameTimer(index, dataURL, count) ==
    [ due |-> StaggerDue(index, count),
      name |-> FileName("frame_", PadStart(ToDigits(index), PadWidth, 0), ".png"),
      data |-> dataURL ]

\* startImageSequence()
startImageSequence(via) ==
    /\ imageSequenceMode' = TRUE
    /\ imageSequenceFrames' = <<>>
    /\ imageSequenceFrameCount' = 0
    /\ SetSize(Square(RECORDING_RESOLUTION))
    /\ seqPrior' = size
    /\ recPrior' = None
    /\ last' = Ran(via, "startImageSequence", "ok")
    /\ UNCHANGED <<hostVars, clockVars, poseVars, frag, unbornVars, domeVars, pacerVars, recVars, timers, downloads,
                   pacerHist>>

\* stopImageSequence()
stopImageSequence(via) ==
    /\ imageSequenceMode' = FALSE
    /\ timers' = timers \o
                 [ i \in 1..Len(imageSequenceFrames) |->
                     FrameTimer(i - 1, imageSequenceFrames[i], Len(imageSequenceFrames)) ]
    /\ imageSequenceFrames' = <<>>
    /\ SetSize(innerSize)
    /\ last' = Ran(via, "stopImageSequence", "ok")
    /\ recPrior' = None
    /\ seqPrior' = None
    /\ UNCHANGED <<hostVars, clockVars, poseVars, frag, unbornVars, domeVars, pacerVars, recVars, imageSequenceFrameCount,
                   downloads, pacerHist>>

\* toggleImageSequence()
toggleImageSequence(via) ==
    IF imageSequenceMode THEN stopImageSequence(via) ELSE startImageSequence(via)

\* keydown 's'
KeyS == IF DOME_MODE THEN toggleImageSequence("KeyS") ELSE Noop("KeyS")

CallStartImageSequence == startImageSequence("call")
CallStopImageSequence == stopImageSequence("call")
CallToggleImageSequence == toggleImageSequence("toggleImageSequence")

RECURSIVE FromDigits(_)
FromDigits(d) == IF Len(d) = 0 THEN 0
                 ELSE 10 * FromDigits(SubSeq(d, 1, Len(d) - 1)) + d[Len(d)]

LiveFrame(timer) ==
    LET k == FromDigits(timer.name.digits) + 1
    IN  IF k <= Len(imageSequenceFrames) THEN imageSequenceFrames[k] ELSE timer.data

\* the timer callback's link.href = dataURL: the forEach callback's parameter,
\* bound when the timer was set
ClosureFrame(timer) == timer.data

\* the host runs the pending timer that is due first (creation order on a tie),
\* once its time has come: the staggered download of one frame
FireTimer ==
    \E i \in 1..Len(timers) :
        /\ \A j \in 1..Len(timers) :
              timers[j].due > timers[i].due \/ (timers[j].due = timers[i].due /\ j >= i)
        /\ Len(downloads) < MaxDownloads
        /\ now' = Max(now, timers[i].due)
        /\ downloads' = Append(downloads, Download(timers[i].name, ClosureFrame(timers[i])))
        /\ timers' = [ k \in 1..(Len(timers) - 1) |->
                         IF k < i THEN timers[k] ELSE timers[k + 1] ]
        /\ last' = Ran("timer", "download", "ok")
        /\ UNCHANGED <<lastCallback, innerSize, pixelRatio, vp9Supported, encodersAllowed, clockVars, poseVars, frag, unbornVars,
                   surfaceVars, domeVars,
                       pacerVars, recVars, seqVars, pacerHist, priorHist>>

\* ------------------------------------------------------ tube/sphere scene
\* changeCameraAndText(), with scene2Step at step: the arguments of gsap.to read
\* cameraSteps[scene2Step].x first; onStart hides the texts and sets the timeouts
changeCameraAndText(step) ==
    /\ stepRead' = step
    /\ IF At(cameraSteps, step) = Undefined
       THEN /\ last' = Ran("wheel", "changeCameraAndText", "throw")
            /\ UNCHANGED <<cameraTween, scene2texts, buttonsVisible,
                           cameraTargetPercentage, timeouts>>
       ELSE /\ cameraTween' = At(cameraSteps, step)[1]
            /\ cameraTargetPercentage' = IF step >= 3 THEN 1 ELSE cameraTargetPercentage
            /\ buttonsVisible' = IF step = 6 THEN buttonsVisible ELSE FALSE
            /\ scene2texts' = [k \in 1..Len(scene2texts) |-> 0]
            /\ timeouts' = timeouts
                             \o (IF step = 6 THEN <<Timeout("buttons", ButtonsDelay)>> ELSE <<>>)
                             \o <<Timeout("text", TextDelay)>>
            /\ last' = Ran("wheel", "changeCameraAndText", "ok")

\* a wheel trigger that moves nothing
WheelIgnored ==
    /\ last' = Ran("wheel", "trigger", "noop")
    /\ UNCHANGED unbornVars

\* the trigger handler's guard for moving forward
CanForward(step) == step < totalSteps

\* the trigger handler's guard for moving backward
CanBackward(step) == step > 0

\* wheelAdaptor 'trigger' with e.y > 0
WheelForward ==
    /\ Len(timeouts) + 2 <= MaxTimeouts
    /\ IF CanForward(scene2Step)
       THEN /\ scene2Step' = scene2Step + 1
            /\ changeCameraAndText(scene2Step')
       ELSE WheelIgnored
    /\ UNCHANGED domeStudio

\* wheelAdaptor 'trigger' with e.y < 0
WheelBackward ==
    /\ Len(timeouts) + 2 <= MaxTimeouts
    /\ IF CanBackward(scene2Step)
       THEN /\ scene2Step' = scene2Step - 1
            /\ changeCameraAndText(scene2Step')
       ELSE WheelIgnored
    /\ UNCHANGED domeStudio

\* half a second passes in the tube/sphere scene with no timeout overdue
Elapse ==
    /\ timeouts # <<>>
    /\ \A i \in 1..Len(timeouts) : timeouts[i].left > 0
    /\ timeouts' = [ i \in 1..Len(timeouts) |-> [timeouts[i] EXCEPT !.left = @ - 1] ]
    /\ last' = Ran("host", "elapse", "ok")
    /\ UNCHANGED <<scene2Step, cameraTween, scene2texts, buttonsVisible,
                   cameraTargetPercentage, stepRead>>
    /\ UNCHANGED domeStudio

\* the host runs a timeout of changeCameraAndText whose delay has passed: the
\* text callback reads scene2texts[scene2Step] as scene2Step is by then
FireTimeout ==
    \E i \in 1..Len(timeouts) :
        /\ timeouts[i].left = 0
        /\ timeouts' = [ k \in 1..(Len(timeouts) - 1) |->
                           IF k < i THEN timeouts[k] ELSE timeouts[k + 1] ]
        /\ IF timeouts[i].kind = "buttons"
           THEN /\ buttonsVisible' = TRUE
                /\ last' = Ran("timer", "showButtons", "ok")
                /\ UNCHANGED <<scene2texts, stepRead>>
           ELSE /\ stepRead' = scene2Step
                /\ IF At(scene2texts, scene2Step) = Undefined
                   THEN /\ last' = Ran("timer", "showText", "throw")
                        /\ UNCHANGED scene2texts
                   ELSE /\ scene2texts' = [scene2texts EXCEPT ![scene2Step + 1] = 1]
                        /\ last' = Ran("timer", "showText", "ok")
                /\ UNCHANGED buttonsVisible
        /\ UNCHANGED <<scene2Step, cameraTween, cameraTargetPercentage>>
        /\ UNCHANGED domeStudio

\* ------------------------------------------------------------ specifications
Next ==
    \/ Tick \/ Animate \/ Resize
    \/ KeyD \/ KeyF \/ KeyE \/ KeyR \/ KeyI \/ KeyS
    \/ CallExportDomeFrame \/ CallExportSingleFrame \/ CallRenderDomeFrameHighRes
    \/ CallStartRecording \/ CallStopRecording \/ CallToggleRecording
    \/ CallStartImageSequence \/ CallStopImageSequence \/ CallToggleImageSequence
    \/ OnStop \/ FireTimer \/ MoveCamera \/ Shade
    \/ WheelForward \/ WheelBackward \/ Elapse \/ FireTimeout

Spec == Init /\ [][Next]_vars

\* the pacer with the operations that touch its state: the callbacks, the
\* dome toggle, and the R key (startRecording resets the frame counter)
\* the born page on a host that records VP9: the camera has no parent
BornPage ==
    /\ vp9Supported
    /\ encodersAllowed = MaxRecordings
    /\ cameraParent = NoParent

InitPacer ==
    /\ Init
    /\ BornPage
    /\ innerSize = <<1920, 1080>>
    /\ pixelRatio = <<1, 1>>

NextPacer ==
    \/ Tick \/ Animate \/ KeyD
    \/ KeyR

SpecPacer == InitPacer /\ [][NextPacer]_vars

\* the image sequence in the render loop, with its staggered downloads
InitSequence ==
    /\ Init
    /\ BornPage
    /\ innerSize = <<1920, 1080>>
    /\ pixelRatio = <<2, 1>>

TickSequence == now < SeqTime /\ Tick

NextSequence ==
    \/ TickSequence \/ Animate \/ KeyD
    \/ KeyS \/ CallStartImageSequence \/ CallStopImageSequence
    \/ CallToggleImageSequence \/ FireTimer

SpecSequence == InitSequence /\ [][NextSequence]_vars

\* the exporter / recorder state machine and the surface size, at one instant
NextExport ==
    \/ Resize
    \/ KeyD \/ KeyF \/ KeyE \/ KeyR \/ KeyI \/ KeyS
    \/ CallExportDomeFrame \/ CallExportSingleFrame \/ CallRenderDomeFrameHighRes
    \/ CallStartRecording \/ CallStopRecording \/ CallToggleRecording
    \/ CallStartImageSequence \/ CallStopImageSequence \/ CallToggleImageSequence
    \/ OnStop

InitExport == Init /\ BornPage

SpecExport == InitExport /\ [][NextExport]_vars

\* the still exports, a rendered frame and the camera moves, at one instant
NextStill ==
    \/ Animate \/ MoveCamera
    \/ KeyD \/ KeyE \/ KeyI
    \/ CallExportDomeFrame \/ CallExportSingleFrame

InitStill == Init /\ BornPage

SpecStill == InitStill /\ [][NextStill]_vars

\* the render loop with the recorder, the image sequence and the pixel export
TickRead == now < ReadTime /\ Tick

NextReadBack ==
    \/ TickRead \/ Animate
    \/ KeyD \/ KeyR \/ KeyS
    \/ CallRenderDomeFrameHighRes

SpecReadBack == InitPacer /\ [][NextReadBack]_vars

\* the captures of a camera with or without a parent: the produced frames and
\* the three still exports
InitRig ==
    /\ Init
    /\ vp9Supported
    /\ encodersAllowed = MaxRecordings
    /\ innerSize = <<1920, 1080>>
    /\ pixelRatio = <<1, 1>>

NextRig ==
    \/ Animate \/ MoveCamera
    \/ KeyD \/ KeyE \/ KeyI
    \/ CallExportDomeFrame \/ CallExportSingleFrame \/ CallRenderDomeFrameHighRes

SpecRig == InitRig /\ [][NextRig]_vars

\* the recorder alone, for sessions that follow one another, on hosts with and
\* without VP9
InitRecorder ==
    /\ Init
    /\ encodersAllowed = MaxSessions
    /\ cameraParent = NoParent
    /\ innerSize = <<1920, 1080>>
    /\ pixelRatio = <<1, 1>>

NextRecorder ==
    \/ KeyD \/ KeyR
    \/ CallStartRecording \/ CallStopRecording \/ CallToggleRecording
    \/ OnStop

SpecRecorder == InitRecorder /\ [][NextRecorder]_vars

\* the fisheye shader, one fragment at a time
InitProjector ==
    /\ Init
    /\ BornPage
    /\ innerSize = <<1920, 1080>>
    /\ pixelRatio = <<1, 1>>

SpecProjector == InitProjector /\ [][Shade]_vars

\* ===================================================================== claims
\* a host callback ran in this step and the pacer, in dome mode, let it through
ProduceStep ==
    /\ lastCallback' # lastCallback
    /\ DOME_MODE
    /\ last'.r = "produce"

SlotsSince == (lastCallback - t0) \div DOME_FRAME_DURATION

\* C1 as written: in dome mode any two consecutive produce callbacks are at least
\* frameDuration apart in wall-clock time.
C1_WallClockSpacing ==
    [][ (ProduceStep /\ lastProduce # NoCallback)
            => now - lastProduce >= DOME_FRAME_DURATION ]_vars

\* C1 amended: every produce in dome mode comes at least frameDuration after the
\* slot time (lastFrameTime) left by the previous produce or toggle, and moves
\* lastFrameTime forward by a positive whole multiple of frameDuration to a slot
\* less than frameDuration before the callback: consecutive produced frames are
\* at least frameDuration apart in slot time, not in wall-clock time.
C1_SlotSpacing ==
    [][ ProduceStep =>
            /\ now - lastFrameTime >= DOME_FRAME_DURATION
            /\ lastFrameTime' - lastFrameTime >= DOME_FRAME_DURATION
            /\ (lastFrameTime' - lastFrameTime) % DOME_FRAME_DURATION = 0
            /\ now - lastFrameTime' >= 0
            /\ now - lastFrameTime' < DOME_FRAME_DURATION ]_vars

\* a second produce of one activation, by a callback that came late for its slot
C1_Witness ==
    /\ DOME_MODE
    /\ last.op = "animate" /\ last.r = "produce"
    /\ domeFrameCount >= 2
    /\ lastFrameTime < now

\* C2: with dome mode on since the toggle at t0, no counter reset since, and every
\* callback gap shorter than frameDuration, after the callback at T the frame
\* counter is floor((T - t0) / frameDuration).
C2_TargetRate ==
    (DOME_MODE /\ gapsShort /\ ~countReset /\ lastCallback >= t0)
        => domeFrameCount = SlotsSince

\* callbacks faster than the target rate have produced three frames, off phase
C2_Witness ==
    /\ DOME_MODE /\ gapsShort /\ ~countReset
    /\ last.op = "animate" /\ last.r = "produce"
    /\ domeFrameCount >= 3
    /\ lastFrameTime < now

\* C3 as written: for any callback sequence, long gaps included, no frame slot is
\* dropped: the number of produces over a window is floor(W / frameDuration).
C3_NoSlotDropped ==
    (DOME_MODE /\ ~countReset /\ lastCallback >= t0)
        => domeFrameCount = SlotsSince

\* C3 amended: the number of produces is at most floor(W / frameDuration); a
\* callback arriving k >= 1 frame durations after lastFrameTime produces one frame
\* and passes over k - 1 slots, so produces plus passed-over slots make up
\* floor(W / frameDuration).
C3_SlotAccounting ==
    (DOME_MODE /\ lastCallback >= t0)
        => /\ domeFrameCount <= SlotsSince
           /\ ~countReset => domeFrameCount + dropped = SlotsSince

\* a produce after a gap of two frame durations or more: a slot was passed over
C3_Witness ==
    /\ DOME_MODE /\ ~countReset
    /\ last.op = "animate" /\ last.r = "produce"
    /\ dropped >= 1
    /\ domeFrameCount >= 2

\* ---------------------------------------------------------------- exporter
DirectCall == {"call", "toggleRecording", "toggleImageSequence"}

EntryPoints == {"startRecording", "stopRecording", "exportSingleFrame",
                "exportDomeFrame", "startImageSequence", "stopImageSequence"}

\* a size the page itself gives the surface: the window, or the 1:1 square
PageSize(sz) ==
    \/ sz = innerSize
    \/ fullscreen1to1 /\ sz = Square(Min(innerSize[1], innerSize[2]))

\* C4 as written: an export / record entry point called while dome mode is
\* inactive changes no state and triggers no download.
C4_InactiveNoOp ==
    [][ (~DOME_MODE /\ last'.via \in DirectCall /\ last'.op \in EntryPoints)
            => UNCHANGED <<size, canvas, isRecording, mediaRecorder, recorders,
                           imageSequenceMode, imageSequenceFrames,
                           imageSequenceFrameCount, domeFrameCount, timers,
                           downloads>> ]_vars

\* C5 as written: startRecording, stopRecording and the encoder's finalize event
\* trigger exactly one video download and leave the surface at the size it had
\* before startRecording, the 1:1 square included.
C5_RecordRestores ==
    [][ (last'.op = "onstop" /\ PageSize(recPrior))
            => /\ size' = recPrior
               /\ Len(downloads') = Len(downloads) + 1
               /\ downloads'[Len(downloads')].name.ext = ".webm" ]_vars

\* C6 as written: a still export in which a step throws leaves the surface at
\* the size it had before the call.
C6_ThrowRestores ==
    [][ last'.r = "throw" => (size' = size /\ canvas' = canvas) ]_vars

\* C7 as written: a still export that returns normally leaves the surface at the
\* size it had before the call, for every size and every device pixel ratio.
C7_ExportRestores ==
    [][ (last'.r = "ok" /\ last'.op \in {"exportDomeFrame", "exportSingleFrame"})
            => (size' = size /\ canvas' = canvas) ]_vars

\* C10 as written: startImageSequence followed by stopImageSequence restores the
\* size the surface had before startImageSequence and leaves the frame list empty.
C10_SequenceRestores ==
    [][ (last'.op = "stopImageSequence" /\ PageSize(seqPrior))
            => (size' = seqPrior /\ imageSequenceFrames' = <<>>) ]_vars

\* ---------------------------------------------------------- image sequence
\* the time at which the stopImageSequence call that set timer t ran
Origin(t) == t.due - FromDigits(t.name.digits) * StaggerDelay

\* C8: stopImageSequence with N captured frames sets exactly N timers; the i-th
\* (i = 0..N-1) is named frame_ + i padded to 6 digits + .png, carries the i-th
\* captured image and is due i x 100 ms later, so the delays increase strictly;
\* and the timers of one stop fire in index order.
C8_StaggeredDownloads ==
    [][ /\ last'.op = "stopImageSequence" =>
            LET N == Len(imageSequenceFrames)
                base == Len(timers)
            IN  /\ Len(timers') = base + N
                /\ \A k \in 1..base : timers'[k] = timers[k]
                /\ \A i \in 0..(N - 1) :
                      LET t == timers'[base + i + 1]
                      IN  /\ t.name.prefix = "frame_"
                          /\ t.name.ext = ".png"
                          /\ Len(t.name.digits) = PadWidth
                          /\ FromDigits(t.name.digits) = i
                          /\ t.data = imageSequenceFrames[i + 1]
                          /\ t.due = now + i * StaggerFrames * DOME_FRAME_DURATION
                /\ \A i \in 1..(N - 1) : timers'[base + i + 1].due > timers'[base + i].due
        /\ (last'.op = "download" /\ Len(downloads') = Len(downloads) + 1) =>
            \E i \in 1..Len(timers) :
                /\ downloads'[Len(downloads')] = Download(timers[i].name, timers[i].data)
                /\ Len(timers') = Len(timers) - 1
                /\ now' >= timers[i].due
                /\ \A j \in 1..Len(timers) :
                      Origin(timers[j]) = Origin(timers[i])
                          => FromDigits(timers[j].name.digits)
                                 >= FromDigits(timers[i].name.digits)
      ]_vars

\* frames 0 and 1 of one sequence were downloaded, in that order
C8_Witness ==
    /\ last.op = "download"
    /\ Len(downloads) >= 2
    /\ downloads[1].name = FileName("frame_", <<0, 0, 0, 0, 0, 0>>, ".png")
    /\ downloads[2].name = FileName("frame_", <<0, 0, 0, 0, 0, 1>>, ".png")
    /\ downloads[1].data[3] < downloads[2].data[3]

\* C9: while an image sequence is active in dome mode, a callback on which the
\* pacer signals produce appends exactly one still, read after that frame was
\* rendered, and a callback on which it signals skip appends none; the stored
\* frames are in produce order.
C9_OneStillPerProduce ==
    /\ [](\A i \in 1..Len(imageSequenceFrames) : \A j \in 1..Len(imageSequenceFrames) :
            i < j => imageSequenceFrames[i][3] < imageSequenceFrames[j][3])
    /\ [][ (lastCallback' # lastCallback /\ DOME_MODE /\ imageSequenceMode) =>
              IF last'.r = "produce"
              THEN /\ drawn' = now
                   /\ imageSequenceFrames' =
                          Append(imageSequenceFrames, <<canvas[1], canvas[2], now>>)
                   /\ imageSequenceFrameCount' = imageSequenceFrameCount + 1
              ELSE /\ imageSequenceFrames' = imageSequenceFrames
                   /\ imageSequenceFrameCount' = imageSequenceFrameCount ]_vars

\* two produced frames were stored by an active sequence
C9_Witness ==
    /\ DOME_MODE /\ imageSequenceMode
    /\ last.op = "animate" /\ last.r = "produce"
    /\ Len(imageSequenceFrames) >= 2
    /\ imageSequenceFrames[Len(imageSequenceFrames)][3] = now

\* ------------------------------------------------------------- dome state
\* C11 as written: exactly one capture rig (cubeCamera) exists while dome mode
\* is active, and none exists while dome mode is inactive.
C11_RigIffDome ==
    /\ DOME_MODE => cubeCamera
    /\ ~DOME_MODE => ~cubeCamera

\* C12 as written: within one activation of dome mode the frame counter never
\* decreases, and it is set to 0 when dome mode is activated and by no other
\* event: a step that lowers the counter is an activation.
C12_CounterReset ==
    [][ /\ (DOME_MODE /\ DOME_MODE') => domeFrameCount' >= domeFrameCount
        /\ (~DOME_MODE /\ DOME_MODE') => domeFrameCount' = 0
        /\ domeFrameCount' < domeFrameCount => (~DOME_MODE /\ DOME_MODE') ]_vars

\* a host callback ran in this step, in dome mode, before any produce of the
\* current activation
CallbackBeforeFirstProduce ==
    /\ lastCallback' # lastCallback
    /\ DOME_MODE
    /\ lastProduce = NoCallback

\* C13 as written: after dome mode is deactivated and reactivated, the first
\* host callback after the reactivation signals produce, however little time
\* has elapsed since the reactivation.
C13_FirstCallbackProduces ==
    [][ (CallbackBeforeFirstProduce /\ reactivated /\ lastCallback < t0)
            => last'.r = "produce" ]_vars

\* C13 amended: after a reactivation at t0 the frame counter is 0, and a host
\* callback before the first produce of the activation (the first callback
\* after the reactivation is one) signals produce exactly when at least
\* frameDuration has elapsed since t0, and skip otherwise.
C13_FirstProduceAfterFrameDuration ==
    [][ (CallbackBeforeFirstProduce /\ reactivated)
            => /\ lastFrameTime = t0
               /\ domeFrameCount = 0
               /\ last'.r = "produce" <=> now - t0 >= DOME_FRAME_DURATION
               /\ last'.r = "skip" <=> now - t0 < DOME_FRAME_DURATION ]_vars

\* the first callback after a reactivation came less than frameDuration after
\* it and was skipped
C13_Witness ==
    /\ DOME_MODE /\ reactivated
    /\ last.op = "animate" /\ last.r = "skip"
    /\ lastProduce = NoCallback
    /\ lastCallback > t0
    /\ domeFrameCount = 0

\* --------------------------------------------------------- simulation clock
\* C14: in dome mode a produced frame advances the simulation clock by the fixed
\* delta 1 / targetFPS (one frame duration) whatever the wall-clock spacing of
\* the callbacks, without polling the wall clock, and a skipped callback leaves
\* it alone; so N produced frames after the toggle the clock has advanced by N
\* fixed deltas.
C14_FixedDelta ==
    /\ []((DOME_MODE /\ ~countReset)
            => time - timeAtT0 = domeFrameCount * TicksPerFrame)
    /\ [][ (lastCallback' # lastCallback /\ DOME_MODE) =>
              IF last'.r = "produce"
              THEN time' = time + TicksPerFrame /\ clockOldTime' = clockOldTime
              ELSE time' = time /\ clockOldTime' = clockOldTime ]_vars

\* two frames produced after a toggle, one of them after a long gap: the wall
\* clock has advanced further than the simulation clock
C14_Witness ==
    /\ DOME_MODE /\ ~countReset
    /\ last.op = "animate" /\ last.r = "produce"
    /\ domeFrameCount >= 2
    /\ time - timeAtT0 = domeFrameCount * TicksPerFrame
    /\ now - t0 > time - timeAtT0 + TicksPerFrame

\* ---------------------------------------------------------------- sessions
\* C15 as written: a video recording in progress or an image sequence in
\* progress implies that dome mode is active.
C15_SessionsNeedDome ==
    (isRecording \/ imageSequenceMode) => DOME_MODE

RecordingSize == Square(RECORDING_RESOLUTION)

\* C16 as written: with dome mode active and the surface at the resolution a
\* session in progress set, starting or stopping the other session leaves the
\* first one's flag and data and that resolution unchanged.
C16_SessionsIndependent ==
    [][ /\ (DOME_MODE /\ isRecording /\ size = RecordingSize
              /\ \/ last'.op = "startImageSequence"
                 \/ last'.op = "stopImageSequence" /\ imageSequenceMode)
            => /\ isRecording' /\ mediaRecorder' = mediaRecorder
               /\ recorders' = recorders
               /\ size' = size /\ canvas' = canvas
        /\ (DOME_MODE /\ imageSequenceMode /\ size = RecordingSize
              /\ last'.op \in {"startRecording", "stopRecording", "onstop"})
            => /\ imageSequenceMode'
               /\ imageSequenceFrames' = imageSequenceFrames
               /\ imageSequenceFrameCount' = imageSequenceFrameCount
               /\ size' = size /\ canvas' = canvas ]_vars

\* --------------------------------------------------------------- projector
\* the normalized output coordinate of the shaded fragment, u = 2 * vUv.x - 1
FragU == Q(2 * frag.vUv[1].n - frag.vUv[1].d, frag.vUv[1].d)
FragV == Q(2 * frag.vUv[2].n - frag.vUv[2].d, frag.vUv[2].d)

\* u * u + v * v, compared with 1 over the common denominator
FragNormSq == FragU.n * FragU.n * FragV.d * FragV.d + FragV.n * FragV.n * FragU.d * FragU.d
FragUnitSq == FragU.d * FragU.d * FragV.d * FragV.d

\* C17: for (u, v) with u * u + v * v > 1 the projector outputs opaque black
\* (0, 0, 0, 1) and samples the capture not at all; for u * u + v * v <= 1 it
\* samples it exactly once, and outputs that sample.
C17_BlackOutsideDisk ==
    frag # NoFragment =>
        IF FragNormSq > FragUnitSq
        THEN /\ frag.out.gl_FragColor = [src |-> "constant", rgba |-> <<0, 0, 0, 1>>]
             /\ frag.out.samples = <<>>
        ELSE /\ Len(frag.out.samples) = 1
             /\ frag.out.gl_FragColor = [src |-> "tCube", dir |-> frag.out.samples[1]]

\* a fragment in a corner of the square, outside the disk but with |u|, |v| <= 1
C17_Witness ==
    /\ frag # NoFragment
    /\ FragNormSq > FragUnitSq
    /\ FragNormSq < 2 * FragUnitSq
    /\ frag.out.gl_FragColor.src = "constant"

\* C18: for (u, v) = (0, 0) the projector computes phi = 0 and samples the
\* forward direction: local direction (0, 0, 1), capture direction (0, 0, -1),
\* for every field of view (and whatever atan returns at the centre).
C18_CentreForward ==
    (frag # NoFragment /\ FragU = Q(0, 1) /\ FragV = Q(0, 1)) =>
        /\ frag.out.phi = Q(0, 1)
        /\ frag.out.dir = << Q(0, 1), Q(0, 1), Q(1, 1) >>
        /\ frag.out.samples = << << Q(0, 1), Q(0, 1), Q(-1, 1) >> >>

\* the centre fragment shaded with a field of view other than 180 and an atan
\* result at the centre whose cosine is no rational number
C18_Witness ==
    /\ frag # NoFragment
    /\ FragU = Q(0, 1) /\ FragV = Q(0, 1)
    /\ frag.fov = 270
    /\ frag.undef = Q(-135, 2)
    /\ Len(frag.out.samples) = 1

\* C19: for (u, v) on the unit circle with fov = 180 the projector computes
\* phi = 90 degrees: the forward component of the direction is 0 and its
\* lateral components are (cos theta, sin theta) = (u, v).
C19_RimPerpendicular ==
    (frag # NoFragment /\ frag.fov = 180 /\ FragNormSq = FragUnitSq) =>
        /\ frag.out.phi = Q(90, 1)
        /\ frag.out.dir = << FragU, FragV, Q(0, 1) >>
        /\ frag.out.samples[1][3] = Q(0, 1)

\* the rim fragment (u, v) = (3/5, 4/5), off the axes
C19_Witness ==
    /\ frag # NoFragment
    /\ frag.fov = 180
    /\ FragU = Q(3, 5) /\ FragV = Q(4, 5)
    /\ frag.out.dir[3] = Q(0, 1)

\* ------------------------------------------------------------ still images
\* a still export that returned
StillOk(l) == l.op \in {"exportDomeFrame", "exportSingleFrame"} /\ l.r = "ok"

C21_PhasePreserved ==
    [][ ProduceStep =>
            /\ lastFrameTime' = now - ((now - lastFrameTime) % DOME_FRAME_DURATION)
            /\ (now - lastFrameTime) % DOME_FRAME_DURATION # 0 => lastFrameTime' # now
            /\ domeFrameCount' = domeFrameCount + 1 ]_vars

\* the first produce of an activation, by a callback that came off phase: the
\* slot time it leaves is neither the callback time nor the toggle time
C21_Witness ==
    /\ DOME_MODE /\ ~countReset
    /\ last.op = "animate" /\ last.r = "produce"
    /\ domeFrameCount = 1
    /\ lastFrameTime # now
    /\ lastFrameTime > t0

\* C22: while dome mode is inactive every host callback is let through
\* (produce) and lastFrameTime and the frame counter are left unchanged.
C22_InactivePassThrough ==
    [][ (lastCallback' # lastCallback /\ ~DOME_MODE)
            => /\ last'.r = "produce"
               /\ drawn' = now
               /\ UNCHANGED <<lastFrameTime, domeFrameCount>> ]_vars

\* dome mode was on and is off again; a callback less than a frame duration
\* after the toggle was let through
C22_Witness ==
    /\ ~DOME_MODE /\ cubeCamera
    /\ last.op = "animate" /\ last.r = "produce"
    /\ now - lastFrameTime < DOME_FRAME_DURATION
    /\ now > lastFrameTime
    /\ drawn = now

\* C23: a host callback in dome mode with T - lastFrameTime < frameDuration
\* signals skip and changes nothing: lastFrameTime, the frame counter, the
\* simulation clock, the camera and the capture rig, the surface and its
\* drawing buffer and the image-sequence list are unchanged, and nothing is
\* downloaded or scheduled.
C23_SkipChangesNothing ==
    [][ (lastCallback' # lastCallback /\ DOME_MODE
           /\ now - lastFrameTime < DOME_FRAME_DURATION)
            => /\ last'.r = "skip"
               /\ UNCHANGED <<lastFrameTime, domeFrameCount, time, clockOldTime,
                              cameraPos, rigPos, rigQuat, size, canvas, drawn,
                              imageSequenceMode, imageSequenceFrames,
                              imageSequenceFrameCount, timers, downloads>> ]_vars

\* a skipped callback while an image sequence holds a frame it captured
C23_Witness ==
    /\ DOME_MODE /\ cubeCamera /\ imageSequenceMode
    /\ last.op = "animate" /\ last.r = "skip"
    /\ Len(imageSequenceFrames) >= 1
    /\ imageSequenceFrames[Len(imageSequenceFrames)][3] = drawn
    /\ drawn < now

\* C24: every entry or re-entry into dome mode (the D key turning DOME_MODE from
\* false to true) sets lastFrameTime to the current wall-clock time and the
\* frame counter to 0.
C24_EntryResets ==
    [][ (~DOME_MODE /\ DOME_MODE')
            => /\ last'.op = "toggleDome"
               /\ lastFrameTime' = now
               /\ domeFrameCount' = 0 ]_vars

\* a re-entry some time after an activation that had produced frames
C24_Witness ==
    /\ DOME_MODE /\ reactivated
    /\ last.op = "toggleDome"
    /\ lastFrameTime = now /\ domeFrameCount = 0
    /\ timeAtT0 >= 2 * DOME_FRAME_DURATION
    /\ now > lastCallback

\* ---------------------------------------------------------------- recorder
IsVideo(d) == d.name.ext = ".webm"

\* the encoder whose finalize task runs in this step
Finalized(i) == recorders[i].state = "stopping" /\ recorders'[i].state = "inactive"

\* C25 as written: after stopRecording the video download and the restoration
\* of the surface size both happen strictly after the encoder's finalize
\* (onstop) event, download first: stopRecording itself does neither, every
\* video download is made by a finalize task, which then leaves the surface at
\* the window size, and between the stop call and the finalize event the
\* surface stays at the recording resolution.
C25_RestoreAfterFinalize ==
    [][ /\ \A i \in 1..Len(recorders') :
                recorders'[i].state = "stopping" => size' = RecordingSize
        /\ (last'.op = "stopRecording" /\ last'.r = "ok")
                => UNCHANGED <<size, canvas, downloads>>
        /\ (Len(downloads') > Len(downloads) /\ IsVideo(downloads'[Len(downloads')]))
                => /\ last'.op = "onstop"
                   /\ \E i \in 1..Len(recorders) : Finalized(i)
                   /\ size' = innerSize ]_vars

\* C26 as written: the file downloaded for a recording session contains
\* exactly the chunks the encoder delivered for that session, in delivery
\* order, for every interleaving of start, stop and the finalize tasks.
C26_FileHoldsOwnChunks ==
    [][ \A i \in 1..Len(recorders) :
            Finalized(i)
                => /\ Len(downloads') = Len(downloads) + 1
                   /\ downloads'[Len(downloads')].data = Blob(recorders'[i].delivered) ]_vars

\* C27 as written: while a video recording or an image sequence is in progress
\* the surface is at the recording resolution in every reachable state,
\* whatever resize events, 1:1 toggles, still exports and finalize tasks of
\* earlier recordings come in between.
C27_SessionHoldsResolution ==
    (isRecording \/ imageSequenceMode)
        => (size = RecordingSize /\ canvas = CanvasOf(RecordingSize))

\* C28: when the constructor throws for the preferred VP9 codec, startRecording
\* constructs the encoder with the default codec and returns in the Recording
\* state of the non-failing path: isRecording set, both handlers installed, the
\* chunk list empty, the frame counter reset, the encoder started, the surface
\* at the recording resolution; and the chunk that encoder delivers is pushed to
\* the chunk list and is in the file of its finalize task.
C28_FallbackRecords ==
    [][ /\ (last'.op = "startRecording" /\ ~isRecording /\ ~vp9Supported)
            => /\ last'.r = "ok"
               /\ isRecording'
               /\ mediaRecorder' = Len(recorders) + 1
               /\ recorders' = Append(recorders,
                                      [state |-> "recording", mimeType |-> "",
                                       ondataavailable |-> TRUE, onstop |-> TRUE,
                                       delivered |-> <<>>])
               /\ recordedChunks' = <<>>
               /\ domeFrameCount' = 0
               /\ size' = RecordingSize
        /\ \A i \in 1..Len(recorders) :
              (Finalized(i) /\ recorders[i].mimeType = "")
                  => LET data == recorders'[i].delivered[Len(recorders'[i].delivered)]
                         file == downloads'[Len(downloads')].data
                     IN  data.size > 0
                             => /\ recordedChunks' = Append(recordedChunks, data)
                                /\ Len(file) >= data.size
                                /\ \A k \in 0..(data.size - 1) : file[Len(file) - k] = i ]_vars

\* on a host without VP9 a recording made with the default codec was stopped
\* and its file, one chunk long, was downloaded
C28_Witness ==
    /\ ~vp9Supported
    /\ last.op = "onstop"
    /\ Len(recorders) = 1
    /\ recorders[1].mimeType = "" /\ recorders[1].state = "inactive"
    /\ recordedChunks = <<[session |-> 1, size |-> 1]>>
    /\ Len(downloads) = 1
    /\ downloads[1].data = <<1>>

\* ------------------------------------------------------------- capture rig
\* a capture ran in this step: a produced dome frame with the rig in place, or
\* a still export that got as far as its capture
CaptureStep ==
    \/ lastCallback' # lastCallback /\ DOME_MODE /\ cubeCamera /\ last'.r = "produce"
    \/ /\ last'.op \in {"exportDomeFrame", "exportSingleFrame", "renderDomeFrameHighRes"}
       /\ last'.r \in {"ok", "throw"}

\* C29 as written: every capture, in a produced dome frame or in a still export,
\* first sets the capture rig's position and orientation to the viewer's world
\* position and world orientation, also when the viewer has a parent with a
\* non-identity transform.
C29_RigAtWorldPose ==
    [][ CaptureStep
            => /\ rigPos' = cameraPos + cameraParent[1]
               /\ rigQuat' = (cameraParent[2] + CameraQuaternion) % 4 ]_vars

\* ---------------------------------------------------------------- read-back
StillOps == {"exportDomeFrame", "exportSingleFrame", "renderDomeFrameHighRes"}

\* C30: a host callback or key event reads the projected frame back as pixels
\* (toDataURL or readRenderTargetPixels) only when it is a still export or a
\* produced frame of an active image sequence; a host callback with no sequence
\* active, one during a video recording included, reads nothing back.
C30_ReadBackOnRequest ==
    [][ /\ last'.read # "none"
            => \/ last'.op \in StillOps
               \/ /\ last'.op = "animate" /\ last'.r = "produce"
                  /\ DOME_MODE /\ imageSequenceMode
        /\ (lastCallback' # lastCallback /\ ~imageSequenceMode)
            => last'.read = "none" ]_vars

\* a dome frame produced and captured during a video recording, with no
\* sequence active: nothing was read back
C30_Witness ==
    /\ DOME_MODE /\ cubeCamera /\ isRecording /\ ~imageSequenceMode
    /\ last.op = "animate" /\ last.r = "produce"
    /\ last.read = "none"
    /\ drawn = now
    /\ domeFrameCount >= 1

\* ------------------------------------------------------------ pacer phase
\* C31: after any sequence of host callbacks since the latest dome-mode toggle
\* at t0, lastFrameTime is t0 + k x frameDuration for an integer k >= 0 and
\* does not exceed the time of the latest callback, and after a produce of the
\* pacer at time T, T - lastFrameTime < frameDuration.
C31_PhaseLocked ==
    /\ [](/\ lastFrameTime >= t0
          /\ (lastFrameTime - t0) % DOME_FRAME_DURATION = 0
          /\ lastCallback >= t0 => lastFrameTime <= lastCallback)
    /\ [][ ProduceStep
             => (now - lastFrameTime' >= 0 /\ now - lastFrameTime' < DOME_FRAME_DURATION) ]_vars

\* after a toggle at t0 > 0 a late callback produced the second frame of the
\* activation: lastFrameTime is three frame durations or more after t0, and
\* before the callback
C31_Witness ==
    /\ DOME_MODE /\ t0 > 0
    /\ last.op = "animate" /\ last.r = "produce"
    /\ domeFrameCount = 2
    /\ lastFrameTime - t0 >= 3 * DOME_FRAME_DURATION
    /\ lastFrameTime < lastCallback

\* ------------------------------------------------------------- dome setup
\* C32: in every reachable state dome mode active implies that the capture rig
\* (and with it the fisheye scene and camera, created by the same run of
\* setupDomeProjection) exists, and setupDomeProjection runs at most once over
\* any sequence of toggles: it runs on the first activation and the rig it
\* made is never dropped.
C32_SetupOnce ==
    /\ [](/\ DOME_MODE => cubeCamera
          /\ rigsAllocated <= 1
          /\ cubeCamera <=> rigsAllocated = 1)
    /\ [][ /\ cubeCamera => cubeCamera'
           /\ rigsAllocated' # rigsAllocated
                => (last'.op = "toggleDome" /\ DOME_MODE' /\ ~cubeCamera) ]_vars

\* dome mode was switched on for the second time, after frames of the first
\* activation: still one rig
C32_Witness ==
    /\ DOME_MODE /\ reactivated /\ cubeCamera
    /\ last.op = "toggleDome"
    /\ rigsAllocated = 1
    /\ rigPos # AtOrigin

\* --------------------------------------------------------- recorder guards
Recording == { i \in 1..Len(recorders) : recorders[i].state = "recording" }

\* C33: startRecording while a recording is in progress is a no-op (no second
\* encoder, the chunk list not cleared, the frame counter not reset, no
\* resize), stopRecording while none is in progress is a no-op (no download, no
\* resize, no encoder stopped); so at most one encoder is recording at any time,
\* and it is the current one exactly while isRecording is set.
C33_GuardedStartStop ==
    /\ [](/\ Cardinality(Recording) <= 1
          /\ Recording = (IF isRecording THEN {mediaRecorder} ELSE {}))
    /\ [][ /\ (last'.op = "startRecording" /\ isRecording)
                => /\ last'.r = "noop"
                   /\ UNCHANGED <<isRecording, mediaRecorder, recorders, recordedChunks,
                                  domeFrameCount, size, canvas, downloads>>
           /\ (last'.op = "stopRecording" /\ ~isRecording)
                => /\ last'.r = "noop"
                   /\ UNCHANGED <<isRecording, mediaRecorder, recorders, recordedChunks,
                                  domeFrameCount, size, canvas, downloads>> ]_vars

\* startRecording was called during the second recording, after the stop task
\* of the first had left a chunk in the list: nothing changed
C33_Witness ==
    /\ isRecording
    /\ last.op = "startRecording" /\ last.r = "noop"
    /\ Len(recorders) = 2 /\ Recording = {2}
    /\ recordedChunks # <<>>

\* ------------------------------------------------------- sequence counter
\* C34: while an image sequence is active, imageSequenceFrameCount equals the
\* length of imageSequenceFrames, and both are 0 immediately after
\* startImageSequence, whatever the previous session left.
C34_CountIsLength ==
    /\ [](imageSequenceMode => imageSequenceFrameCount = Len(imageSequenceFrames))
    /\ [][ last'.op = "startImageSequence"
             => (imageSequenceFrameCount' = 0 /\ imageSequenceFrames' = <<>>) ]_vars

\* a second session holds its first frame while the timer of the first session,
\* which left the counter at 1, is pending
C34_Witness ==
    /\ imageSequenceMode
    /\ Len(timers) = 1
    /\ imageSequenceFrameCount = 1
    /\ Len(imageSequenceFrames) = 1
    /\ last.op = "animate" /\ last.r = "produce"

\* ------------------------------------------------------ pending downloads
FramesOf(list) == { list[k] : k \in 1..Len(list) }

\* C35: the downloads stopImageSequence scheduled are not affected by later
\* events: a timer set for index i carries the i-th frame of the stopped
\* session, no later step (startImageSequence and captures of a new session
\* included) changes a pending timer, the timer that fires downloads the frame
\* and the file name it was set with, and no frame of a stopped session is in
\* the list of the session in progress.
C35_PendingDownloadsKept ==
    /\ [](imageSequenceMode
            => \A k \in 1..Len(timers) : timers[k].data \notin FramesOf(imageSequenceFrames))
    /\ [][ /\ last'.op # "download"
                => /\ Len(timers') >= Len(timers)
                   /\ \A k \in 1..Len(timers) : timers'[k] = timers[k]
           /\ last'.op = "stopImageSequence"
                => \A k \in 1..Len(imageSequenceFrames) :
                      LET t == timers'[Len(timers) + k]
                      IN  /\ t.data = imageSequenceFrames[k]
                          /\ FromDigits(t.name.digits) = k - 1
           /\ last'.op = "download"
                => \E i \in 1..Len(timers) :
                      /\ downloads' = Append(downloads, Download(timers[i].name, timers[i].data))
                      /\ Len(timers') = Len(timers) - 1
                      /\ \A k \in 1..Len(timers') :
                            timers'[k] = IF k < i THEN timers[k] ELSE timers[k + 1] ]_vars

\* the timer of the first session's frame 0 fired after a second session had
\* captured its own frame 0: the download is the first session's frame
C35_Witness ==
    /\ last.op = "download"
    /\ imageSequenceMode
    /\ Len(imageSequenceFrames) = 1
    /\ Len(downloads) = 1
    /\ FromDigits(downloads[1].name.digits) = 0
    /\ downloads[1].data # imageSequenceFrames[1]
    /\ downloads[1].data[3] < imageSequenceFrames[1][3]

\* ------------------------------------------------------ tube/sphere steps
\* the wheel-driven steps of the tube/sphere scene, from the moment the wheel
\* adaptor is connected
InitUnborn ==
    /\ Init
    /\ BornPage
    /\ innerSize = <<1920, 1080>>
    /\ pixelRatio = <<1, 1>>

NextUnborn == WheelForward \/ WheelBackward \/ Elapse \/ FireTimeout

SpecUnborn == InitUnborn /\ [][NextUnborn]_vars

\* C36 as written: after any sequence of forward and backward wheel triggers,
\* the index changeCameraAndText reads cameraSteps and scene2texts at is a valid
\* index of both (0 .. 6).
C36_StepIsIndex ==
    stepRead # NoStep
        => /\ stepRead \in 0..(Len(cameraSteps) - 1)
           /\ stepRead \in 0..(Len(scene2texts) - 1)

\* ------------------------------------------------------ windowed delta
\* a callback that rendered a frame outside dome mode, some frame having been
\* rendered before it
WindowedFrame ==
    /\ last'.op = "animate" /\ last'.r = "produce"
    /\ ~DOME_MODE
    /\ lastRender # NoCallback

\* C37 as written: on every frame rendered outside dome mode the simulation
\* clock advances by the wall-clock time since the previous rendered frame, the
\* first frame rendered after dome mode is switched off included.
C37_WindowedDeltaIsWallClock ==
    [][ WindowedFrame => time' - time = now - lastRender ]_vars
====
